---- MODULE Spec2Model ----
(***************************************************************************)
(* Model of the retrieval-augmented answering backend:                     *)
(*   rag_system.py   get_embedding, retrieve_documents,                    *)
(*                   num_tokens_from_string, generate_llm_response,        *)
(*                   generate_rag_answer                                   *)
(*   app.py          POST /api/  (ask_question)                            *)
(*   api/index.py, api/query.py, index.py   POST /ask                      *)
(*                                                                         *)
(* Conventions.                                                            *)
(*  - A Python str is a sequence of text chunks; "" is << >>.  Chunks in   *)
(*    Whitespace are the characters str.strip() removes.                   *)
(*  - A metadata value is a tagged JSON value [t |-> "str"|"num", v |-> _]. *)
(*  - A Python dict is a function from key strings to values; a missing    *)
(*    key is a key outside its DOMAIN.                                     *)
(*  - tiktoken, the embedding endpoint, the vector index and the chat      *)
(*    endpoint are the environment: their answers are chosen with \E.      *)
(***************************************************************************)
EXTENDS Integers, Sequences, FiniteSets, TLC

VARIABLES
    route,                \* which HTTP module serves the request
    handler,              \* position of the module / HTTP handler
    rag_fn,               \* what the name generate_rag_answer is bound to
    pc,                   \* position inside generate_rag_answer
    question,             \* request.question / user_query
    image_data_list,      \* argument image_data_list of generate_rag_answer
    query_embedding,      \* result of get_embedding
    retrieved_documents,  \* result of retrieve_documents
    llm_model_to_use,     \* rag_system.py:105
    current_tokens,       \* rag_system.py:118,132
    idx,                  \* rank of the passage the for loop is at
    context_str_parts,    \* rag_system.py:115,129
    sources,              \* rag_system.py:116,131
    admitted,             \* ranks that took the if branch (line 128)
    rejected,             \* ranks that took the else branch (line 133)
    context_tokens,       \* token count of full_context_str (line 136)
    chat_request,         \* arguments of chat.completions.create
    result,               \* dict returned by generate_rag_answer
    failed,               \* stage whose call raised, or "none"
    embedCalls,           \* calls of embeddings.create
    queryCalls,           \* calls of index.query
    chatCalls,            \* calls of chat.completions.create
    response,             \* HTTP response of the handler
    in_flight,            \* external call issued and not yet answered
    \* retriever.py
    r_module,                  \* retriever.py: "unloaded", "loaded" or "import_error"
    r_pc,                      \* position of each thread in retrieve_relevant_chunks
    r_site,                    \* line that called initialize_retriever_pinecone (80, 61)
    r_env_set,                 \* PINECONE_API_KEY and PINECONE_ENVIRONMENT are set
    pc_retriever,              \* retriever.py:26 (0 is None, k the k-th client built)
    pinecone_index_retriever,  \* retriever.py:27 (0 is None, k the k-th handle)
    retriever_initialized,     \* retriever.py:30
    r_query,                   \* argument query of each thread's call
    r_query_embedding,         \* retriever.py:84, local of each thread's call
    r_failure,                 \* step of each thread's call that failed ("" if none)
    r_result,                  \* value each thread's last call returned
    r_returned_at,             \* line of the return statement that call took
    r_calls,                   \* calls of retrieve_relevant_chunks made
    r_clients_built,           \* Pinecone(...) constructions
    r_handles_built,           \* pc_retriever.Index(...) calls
    r_index_queries,           \* pinecone_index_retriever.query calls
    \* two requests served at once by rag_system.py
    c_pinecone,           \* module-level pc, rag_system.py:31 (0 before import)
    c_openai,             \* module-level openai_client, rag_system.py:38
    c_frame,              \* locals of the running calls of generate_rag_answer
    c_pc,                 \* position of each request
    c_in,                 \* arguments each request was called with
    c_resp,               \* what the services answered each request
    c_result,             \* value returned to each request
    c_concurrent          \* a request took a step while the other was running

vars == << route, handler, rag_fn, pc, question, image_data_list,
           query_embedding, retrieved_documents, llm_model_to_use,
           current_tokens, idx, context_str_parts, sources, admitted,
           rejected, context_tokens, chat_request, result, failed,
           embedCalls, queryCalls, chatCalls, response, in_flight,
           r_module, r_pc, r_site, r_env_set, pc_retriever, pinecone_index_retriever,
           retriever_initialized, r_query, r_query_embedding, r_failure,
           r_result, r_returned_at, r_calls, r_clients_built, r_handles_built,
           r_index_queries,
           c_pinecone, c_openai, c_frame, c_pc, c_in, c_resp, c_result,
           c_concurrent >>

concVars == << c_pinecone, c_openai, c_frame, c_pc, c_in, c_resp, c_result,
               c_concurrent >>

\* state of retriever.py
retrVars == << r_module, r_pc, r_site, r_env_set, pc_retriever, pinecone_index_retriever,
               retriever_initialized, r_query, r_query_embedding, r_failure,
               r_result, r_returned_at, r_calls, r_clients_built,
               r_handles_built, r_index_queries >>

\* state of the modules a request to rag_system does not touch
otherVars == << retrVars, concVars >>

\* state outside the atomic-call view of one request
auxVars == << in_flight, otherVars >>

-----------------------------------------------------------------------------
(* Bounds of the model *)

MaxDocs == 3      \* longest match list the index returns in the model
MaxImages == 1    \* longest image list of a request in the model
MaxChunks == 2    \* longest match list the retriever's index returns in the model
MaxRetrieverCalls == 3   \* calls of retrieve_relevant_chunks in one run

(* Program constants *)

MAX_TOKENS_FOR_LLM_VISION == 4096
RESERVED_QUERY_TOKENS == 500
TOP_K == 7
LLM_MODEL_VISION == "gpt-4o"
LLM_MODEL_TEXT_ONLY == "gpt-3.5-turbo"
EMBEDDING_MODEL == "text-embedding-3-small"
SystemPromptTemplate == "You are a helpful assistant ... Context:"

-----------------------------------------------------------------------------
(* Values *)

JStr(s) == [t |-> "str", v |-> s]
JNum(s) == [t |-> "num", v |-> s]
EmptyDict == [k \in {} |-> JStr("")]
None == [none |-> TRUE, items |-> << >>]
ListOf(items) == [none |-> FALSE, items |-> items]

\* dict.get(key, default)
DictGet(d, key, default) == IF key \in DOMAIN d THEN d[key] ELSE default

\* Python truthiness of an Optional[list]: None and [] are falsy
Truthy(l) == ~l.none /\ Len(l.items) > 0

Min(a, b) == IF a < b THEN a ELSE b

RECURSIVE SumSeq(_)
SumSeq(s) == IF s = << >> THEN 0 ELSE Head(s) + SumSeq(Tail(s))

\* all sequences over S of length 0..n
SeqsUpTo(S, n) == UNION { [1..k -> S] : k \in 0..n }

\* The characters str.strip() drops: those for which str.isspace() is true.
\* The code points a string literal here cannot hold are written as a chunk
\* carrying their Python escape.
Whitespace ==
    { " ", "\t", "\n", "\r", "\f",
      "\\x0b", "\\x1c", "\\x1d", "\\x1e", "\\x1f", "\\x85", "\\xa0",
      "\\u1680", "\\u2000", "\\u2001", "\\u2002", "\\u2003", "\\u2004",
      "\\u2005", "\\u2006", "\\u2007", "\\u2008", "\\u2009", "\\u200a",
      "\\u2028", "\\u2029", "\\u202f", "\\u205f", "\\u3000" }

\* str.strip(): drop leading and trailing whitespace
RECURSIVE LStrip(_)
LStrip(s) ==
    IF s # << >> /\ Head(s) \in Whitespace THEN LStrip(Tail(s)) ELSE s
RECURSIVE RStrip(_)
RStrip(s) ==
    IF s # << >> /\ s[Len(s)] \in Whitespace
    THEN RStrip(SubSeq(s, 1, Len(s) - 1)) ELSE s
Strip(s) == RStrip(LStrip(s))

-----------------------------------------------------------------------------
(* Inputs of the environment *)

Routes == {"app", "api_index", "api_query", "index"}

Questions == {"q_short", "q_mid", "q_huge"}

\* An image string of the request body, as its comma-separated pieces.
ImagePool == { << "QUJD" >>,
               << "data:image/png;base64", "QUJD" >>,
               << "data:image/png" >> }
StartsWithDataImage(img) == img[1] \in {"data:image/png;base64", "data:image/png"}

\* request.image_data: absent (None) or a list of strings
RequestImages == {None} \cup { ListOf(l) : l \in SeqsUpTo(ImagePool, MaxImages) }

\* Matches the vector index can return: id, score and a metadata dict.
MatchPool ==
    { [id |-> "d1", score |-> 90,
       metadata |-> [text |-> JStr("x_small"), title |-> JStr("T1"), url |-> JStr("U1")]],
      [id |-> "d2", score |-> 80,
       metadata |-> [text |-> JStr("x_large"), title |-> JStr("T2"), url |-> JStr("U2")]],
      [id |-> "d3", score |-> 70,
       metadata |-> EmptyDict],
      [id |-> "d4", score |-> 60,
       metadata |-> [text |-> JStr("x_mid"), title |-> JNum("42"), url |-> JStr("U4")]] }

\* index.query(top_k=7) returns at most top_k matches
MatchLists == SeqsUpTo(MatchPool, Min(MaxDocs, TOP_K))

\* message.content of the chat completion: a str (or None, chosen apart)
ChatContents ==
    { << "ok" >>, << " ", "ok", "\r", "\n" >>, << " ", "\n" >>, << "\r", "\n" >>, << >> }

\* two requests in rag_system.py
Requests == {1, 2}

\* two threads calling into retriever.py
Threads == {1, 2}

\* (variant: the locals are module-level names, one set for every call)
SlotShared(r) == 1

\* the frame holding the locals of request r's call: each call has its own
Slot(r) == r

EmptyFrame == [question |-> "", image_data_list |-> None,
               query_embedding |-> << >>, retrieved_documents |-> << >>]
NoInput == [question |-> "", image_data_list |-> None]
NoAnswers == [embed    |-> "",
              retrieve |-> [kind |-> "", matches |-> << >>],
              generate |-> [kind |-> "", content |-> << >>]]

-----------------------------------------------------------------------------
(* rag_system.py *)

\* len(encoding.encode(string)) as tiktoken answers it for the strings of
\* the model: the count is decided by the variable part of the string (the
\* question of a prompt, the text of a passage block) and by the encoding
\* of the model (cl100k_base for gpt-3.5-turbo, o200k_base for gpt-4o).
EncodedLength(body, model_name) ==
    LET n == CASE body = "q_short" -> 96
               [] body = "q_mid"   -> 596
               [] body = "q_huge"  -> 3596
               [] body = "x_small" -> 1000
               [] body = "x_mid"   -> 2000
               [] body = "x_large" -> 3000
               [] OTHER            -> 20
    IN IF model_name = LLM_MODEL_VISION THEN n - 10 ELSE n

\* num_tokens_from_string(string, model_name); string is a chunk sequence
\* whose last chunk is its variable part
NumTokensFromString(string, model_name) ==
    EncodedLength(string[Len(string)], model_name)

\* the dict retrieve_documents builds from one match (lines 81-87)
MatchToDoc(match) ==
    [id    |-> match.id,
     score |-> match.score,
     text  |-> DictGet(match.metadata, "text", JStr("")),
     title |-> DictGet(match.metadata, "title", JStr("No Title")),
     url   |-> DictGet(match.metadata, "url", JStr("#"))]

RetrievedDocs(matches) == [i \in 1..Len(matches) |-> MatchToDoc(matches[i])]

\* f"\n\n--- Document from {doc_title} (Source: {doc_url}) ---\n{doc_content}"
DocForLlm(doc) ==
    << "\n\n--- Document from ", DictGet(doc, "title", JStr("No Title")).v,
       " (Source: ", DictGet(doc, "url", JStr("#")).v, ") ---\n",
       DictGet(doc, "text", JStr("")).v >>

\* {"title": doc_title, "url": doc_url}
Citation(doc) ==
    [title |-> DictGet(doc, "title", JStr("No Title")),
     url   |-> DictGet(doc, "url", JStr("#"))]

\* (variant: the list is tested against None instead of for truth)
LlmModelForNotNone(images) ==
    IF ~images.none THEN LLM_MODEL_VISION ELSE LLM_MODEL_TEXT_ONLY

LlmModelFor(images) ==
    IF Truthy(images) THEN LLM_MODEL_VISION ELSE LLM_MODEL_TEXT_ONLY

MaxTokensEffective(images) ==
    IF Truthy(images) THEN MAX_TOKENS_FOR_LLM_VISION ELSE MAX_TOKENS_FOR_LLM_VISION

\* (variant: the reserved tokens are left out of the base count)
BaseTokensNoReserve(q, model_name) ==
    NumTokensFromString(<< SystemPromptTemplate, q >>, model_name)

BaseTokens(q, model_name) ==
    NumTokensFromString(<< SystemPromptTemplate, q >>, model_name)
        + RESERVED_QUERY_TOKENS

\* (variant: an inclusive comparison)
FitsBudgetInclusive(cur, doc_tokens, limit) == cur + doc_tokens <= limit

\* the test of line 128
FitsBudget(cur, doc_tokens, limit) == cur + doc_tokens < limit

\* (variant: only unique sources are added)
SourcesAfterAdmitUnique(srcs, doc) ==
    IF \E k \in 1..Len(srcs) : srcs[k] = [title |-> doc.title, url |-> doc.url]
    THEN srcs ELSE Append(srcs, [title |-> doc.title, url |-> doc.url])

\* sources.append(...) of line 131
SourcesAfterAdmit(srcs, doc) == Append(srcs, Citation(doc))

\* (variant: continue instead of break)
RankAfterRejectContinue(i, n) == i + 1

\* where the for loop goes after the else branch: break leaves the loop
RankAfterReject(i, n) == n + 1

\* (variant: the citations collected so far are returned with the apology)
LlmErrorResultKeepsSources ==
    [answer  |-> << "I'm sorry, I encountered an error while trying to generate a response." >>,
     sources |-> sources]

\* fallback dict of line 169
LlmErrorResult ==
    [answer  |-> << "I'm sorry, I encountered an error while trying to generate a response." >>,
     sources |-> << >>]

\* dict of line 165
LlmSuccessResult(content, srcs) ==
    [answer |-> Strip(content), sources |-> srcs]

\* (variant: the error dict carries no sources key)
RagErrorResultNoSources ==
    [answer |-> << "I'm sorry, an internal error occurred in the RAG system." >>]

\* (variant: the apology of generate_llm_response copied into the orchestrator)
RagErrorResultWrongText ==
    [answer  |-> << "I'm sorry, I encountered an error while trying to generate a response." >>,
     sources |-> << >>]

\* dict of line 191
RagErrorResult ==
    [answer  |-> << "I'm sorry, an internal error occurred in the RAG system." >>,
     sources |-> << >>]

\* (variant: a retrieval failure is taken as zero passages and the run goes on)
ExceptTargetSwallowRetrieval(stage) == IF stage = "retrieve" THEN "pack" ELSE "ERROR"

\* an exception raised inside the try of generate_rag_answer (line 177)
\* transfers to its except clause (line 188), whatever stage raised it
ExceptTarget(stage) == "ERROR"

-----------------------------------------------------------------------------
(* HTTP modules *)

\* api/index.py:11, the stand-in bound when rag_system cannot be imported
FallbackLambdaResult ==
    [answer |-> << "Error loading RAG system" >>, sources |-> << >>]

\* app.py:47-53: strip the data-URL header of every image
\* img_b64.split(",", 1)[1] is the text after the first comma
SplitAfterComma(img) == Tail(img)
CanSplit(img) == Len(img) >= 2
ImageListForRag(image_data) ==
    IF Truthy(image_data)
    THEN [i \in 1..Len(image_data.items) |->
            IF StartsWithDataImage(image_data.items[i])
            THEN SplitAfterComma(image_data.items[i])
            ELSE image_data.items[i]]
    ELSE << >>
\* split(",", 1)[1] raises IndexError when a data:image/ string has no comma
ImageLoopRaises(image_data) ==
    /\ Truthy(image_data)
    /\ \E i \in 1..Len(image_data.items) :
          StartsWithDataImage(image_data.items[i]) /\ ~CanSplit(image_data.items[i])

\* (variant: the exception text is put in the detail)
AppErrorResponseLeaky(exc) ==
    [status |-> 500, body |-> [detail |-> exc]]

\* app.py:59-61
AppErrorResponse(exc) ==
    [status |-> 500,
     body   |-> [detail |-> "An error occurred while processing your request."]]

\* RAGResponse(answer=..., sources=...) accepts a source whose title and url
\* are str; Source(title: str, url: str)
SourceIsValid(src) == src.title.t = "str" /\ src.url.t = "str"
AllSourcesValid(out) == \A k \in 1..Len(out.sources) : SourceIsValid(out.sources[k])

\* app.py:58, the validated response model serialised
AppOkResponse(out) ==
    [status |-> 200,
     body   |-> [answer  |-> [kind |-> "string", value |-> out.answer],
                 sources |-> [k \in 1..Len(out.sources) |->
                                [title |-> out.sources[k].title.v,
                                 url   |-> out.sources[k].url.v]]]]

\* api/index.py:23-29 (the same lines as index.py:23-29)
RECURSIVE LinksOf(_)
LinksOf(srcs) ==
    IF srcs = << >> THEN << >>
    ELSE LET source == Head(srcs)
             rest   == LinksOf(Tail(srcs))
         IN IF "url" \in DOMAIN source /\ "title" \in DOMAIN source
            THEN << [url |-> source["url"], text |-> source["title"]] >> \o rest
            ELSE IF "url" \in DOMAIN source
            THEN << [url |-> source["url"], text |-> source["url"]] >> \o rest
            ELSE rest

LinksList(rag_output) ==
    IF "sources" \in DOMAIN rag_output THEN LinksOf(rag_output["sources"]) ELSE << >>

\* api/index.py:22,30
ApiIndexResponse(rag_output) ==
    [status |-> 200,
     body   |-> [answer |-> [kind  |-> "string",
                             value |-> DictGet(rag_output, "answer",
                                 << "I'm sorry, I cannot answer this question at this time." >>)],
                 links  |-> LinksList(rag_output)]]

\* api/query.py:27-30: the whole return value goes under "answer"
ApiQueryResponse(rag_response) ==
    [status |-> 200,
     body   |-> [answer |-> [kind |-> "object", value |-> rag_response],
                 links  |-> << >>]]

-----------------------------------------------------------------------------
(* State machine *)

NoResult == [k \in {} |-> << >>]
NoResponse == [status |-> 0, body |-> [k \in {} |-> << >>]]
NoRequest == [model |-> "", system |-> << >>, user |-> << >>]

Init ==
    /\ route \in Routes
    /\ handler = "loading"
    /\ rag_fn = "unbound"
    /\ pc = "START"
    /\ question = ""
    /\ image_data_list = None
    /\ query_embedding = << >>
    /\ retrieved_documents = << >>
    /\ llm_model_to_use = ""
    /\ current_tokens = 0
    /\ idx = 0
    /\ context_str_parts = << >>
    /\ sources = << >>
    /\ admitted = << >>
    /\ rejected = {}
    /\ context_tokens = 0
    /\ chat_request = NoRequest
    /\ result = NoResult
    /\ failed = "none"
    /\ embedCalls = 0
    /\ queryCalls = 0
    /\ chatCalls = 0
    /\ response = NoResponse
    /\ in_flight = "none"
    /\ r_module = "unloaded"
    /\ r_pc = [t \in Threads |-> "idle"]
    /\ r_site = [t \in Threads |-> 0]
    /\ r_env_set = FALSE
    /\ pc_retriever = 0
    /\ pinecone_index_retriever = 0
    /\ retriever_initialized = FALSE
    /\ r_query = [t \in Threads |-> ""]
    /\ r_query_embedding = [t \in Threads |-> None]
    /\ r_failure = [t \in Threads |-> ""]
    /\ r_result = [t \in Threads |-> << >>]
    /\ r_returned_at = [t \in Threads |-> 0]
    /\ r_calls = 0
    /\ r_clients_built = 0
    /\ r_handles_built = 0
    /\ r_index_queries = 0
    /\ c_pinecone = 0
    /\ c_openai = 0
    /\ c_frame = [f \in { Slot(r) : r \in Requests } |-> EmptyFrame]
    /\ c_pc = [r \in Requests |-> "idle"]
    /\ c_in = [r \in Requests |-> NoInput]
    /\ c_resp = [r \in Requests |-> NoAnswers]
    /\ c_result = [r \in Requests |-> [k \in {} |-> << >>]]
    /\ c_concurrent = FALSE

ragVars == << pc, query_embedding, retrieved_documents, llm_model_to_use,
              current_tokens, idx, context_str_parts, sources, admitted,
              rejected, context_tokens, chat_request, failed,
              embedCalls, queryCalls, chatCalls >>

\* Module import.  rag_system raises at import when an environment variable
\* is missing or the Pinecone client cannot be built (rag_system.py:25-35).
\* api/index.py catches that and binds the lambda of line 11; app.py and
\* api/query.py do not.  index.py:43 names HTMLResponse, which it never
\* imports, so its import always ends in NameError.
ImportModule ==
    /\ handler = "loading"
    /\ \E rag_ok \in BOOLEAN :
         \/ /\ route = "index"
            /\ handler' = "import_error"
            /\ rag_fn' = IF rag_ok THEN "rag_system" ELSE "unbound"
         \/ /\ route = "api_index"
            /\ handler' = "ready"
            /\ rag_fn' = IF rag_ok THEN "rag_system" ELSE "lambda"
         \/ /\ route \in {"app", "api_query"}
            /\ handler' = IF rag_ok THEN "ready" ELSE "import_error"
            /\ rag_fn' = IF rag_ok THEN "rag_system" ELSE "unbound"
    /\ UNCHANGED << route, question, image_data_list, result, response >>
    /\ UNCHANGED ragVars

\* app.py:45-56: ask_question up to the call of generate_rag_answer
AskQuestion ==
    /\ handler = "ready"
    /\ route = "app"
    /\ \E q \in Questions, image_data \in RequestImages :
         /\ question' = q
         /\ IF ImageLoopRaises(image_data)
            THEN /\ response' = AppErrorResponse("IndexError: list index out of range")
                 /\ handler' = "responded"
                 /\ UNCHANGED << image_data_list, pc >>
            ELSE /\ image_data_list' = ListOf(ImageListForRag(image_data))
                 /\ handler' = "in_rag"
                 /\ pc' = "embed"
                 /\ UNCHANGED response
    /\ UNCHANGED << route, rag_fn, result >>
    /\ UNCHANGED << query_embedding, retrieved_documents, llm_model_to_use,
                    current_tokens, idx, context_str_parts, sources, admitted,
                    rejected, context_tokens, chat_request, failed,
                    embedCalls, queryCalls, chatCalls >>

\* api/index.py:21, api/query.py:20: generate_rag_answer(request.question)
QueryKnowledgeBase ==
    /\ handler = "ready"
    /\ route \in {"api_index", "api_query"}
    /\ \E q \in Questions :
         /\ question' = q
         /\ image_data_list' = None
         /\ IF rag_fn = "lambda"
            THEN /\ result' = FallbackLambdaResult
                 /\ handler' = "returned"
                 /\ UNCHANGED pc
            ELSE /\ handler' = "in_rag"
                 /\ pc' = "embed"
                 /\ UNCHANGED result
    /\ UNCHANGED << route, rag_fn, response >>
    /\ UNCHANGED << query_embedding, retrieved_documents, llm_model_to_use,
                    current_tokens, idx, context_str_parts, sources, admitted,
                    rejected, context_tokens, chat_request, failed,
                    embedCalls, queryCalls, chatCalls >>

\* what generate_rag_answer does with an exception of `stage`
Raise(stage) ==
    /\ failed' = stage
    /\ pc' = ExceptTarget(stage)
    /\ IF ExceptTarget(stage) = "ERROR"
       THEN /\ result' = RagErrorResult
            /\ handler' = "returned"
       ELSE UNCHANGED << result, handler >>

\* rag_system.py:179 with get_embedding (55-65)
GetEmbedding ==
    /\ handler = "in_rag"
    /\ pc = "embed"
    /\ embedCalls' = embedCalls + 1
    /\ \/ /\ query_embedding' = << EMBEDDING_MODEL, question >>
          /\ pc' = "retrieve"
          /\ UNCHANGED << failed, result, handler >>
       \/ /\ Raise("embed")
          /\ UNCHANGED query_embedding
    /\ UNCHANGED << route, rag_fn, question, image_data_list, response,
                    retrieved_documents, llm_model_to_use, current_tokens, idx,
                    context_str_parts, sources, admitted, rejected,
                    context_tokens, chat_request, queryCalls, chatCalls >>

\* rag_system.py:182 with retrieve_documents (67-91).  The try of line 71
\* can raise at pc.Index (line 72, before the query is sent) or at
\* index.query and the loop over its matches (lines 73-87).
RetrieveUnchanged ==
    UNCHANGED << route, rag_fn, question, image_data_list, response,
                 query_embedding, llm_model_to_use, current_tokens, idx,
                 context_str_parts, sources, admitted, rejected,
                 context_tokens, chat_request, embedCalls, chatCalls >>

\* pc.Index(...) of line 72 raises: no query is sent
RetrieveIndexRaises ==
    /\ handler = "in_rag"
    /\ pc = "retrieve"
    /\ Raise("retrieve")
    /\ UNCHANGED << retrieved_documents, queryCalls >>
    /\ RetrieveUnchanged

\* pc.Index(...) returned and index.query was sent (line 73): it answers
\* with matches, or the call raises
RetrieveQueryAnswered ==
    /\ handler = "in_rag"
    /\ pc = "retrieve"
    /\ queryCalls' = queryCalls + 1
    /\ \/ \E matches \in MatchLists :
            /\ retrieved_documents' = RetrievedDocs(matches)
            /\ pc' = "pack"
            /\ UNCHANGED << failed, result, handler >>
       \/ /\ Raise("retrieve")
          /\ UNCHANGED retrieved_documents
    /\ RetrieveUnchanged

RetrieveDocuments ==
    \/ RetrieveIndexRaises
    \/ RetrieveQueryAnswered

\* rag_system.py:105-118: model choice and the base token count.
\* tiktoken.encoding_for_model raises when it does not know the model or
\* cannot load the encoding; line 118 is outside the try of line 156.
PackInit ==
    /\ handler = "in_rag"
    /\ pc = "pack"
    /\ llm_model_to_use' = LlmModelFor(image_data_list)
    /\ \/ /\ current_tokens' = BaseTokens(question, LlmModelFor(image_data_list))
          /\ idx' = 1
          /\ pc' = "pack_loop"
          /\ UNCHANGED << failed, result, handler >>
       \/ /\ Raise("pack")
          /\ UNCHANGED << current_tokens, idx >>
    /\ UNCHANGED << route, rag_fn, question, image_data_list, response,
                    query_embedding, retrieved_documents, context_str_parts,
                    sources, admitted, rejected, context_tokens, chat_request,
                    embedCalls, queryCalls, chatCalls >>

\* rag_system.py:120-134: one iteration of the for loop.  The count of
\* line 126 can raise (encode refuses a text holding a special token such
\* as <|endoftext|>); line 126 is outside the try of line 156, so the
\* exception reaches the except of generate_rag_answer.
PackLoop ==
    /\ handler = "in_rag"
    /\ pc = "pack_loop"
    /\ idx <= Len(retrieved_documents)
    /\ \/ /\ LET doc         == retrieved_documents[idx]
                 doc_for_llm == DocForLlm(doc)
                 doc_tokens  == NumTokensFromString(doc_for_llm, llm_model_to_use)
             IN IF FitsBudget(current_tokens, doc_tokens,
                              MaxTokensEffective(image_data_list))
                THEN /\ context_str_parts' = Append(context_str_parts, doc_for_llm)
                     /\ sources' = SourcesAfterAdmit(sources, doc)
                     /\ current_tokens' = current_tokens + doc_tokens
                     /\ admitted' = Append(admitted, idx)
                     /\ idx' = idx + 1
                     /\ UNCHANGED rejected
                ELSE /\ rejected' = rejected \cup {idx}
                     /\ idx' = RankAfterReject(idx, Len(retrieved_documents))
                     /\ UNCHANGED << context_str_parts, sources, current_tokens,
                                     admitted >>
          /\ UNCHANGED << handler, pc, result, failed >>
       \/ /\ Raise("pack")
          /\ UNCHANGED << context_str_parts, sources, current_tokens, admitted,
                          rejected, idx >>
    /\ UNCHANGED << route, rag_fn, question, image_data_list,
                    response, query_embedding,
                    retrieved_documents, llm_model_to_use, context_tokens,
                    chat_request, embedCalls, queryCalls, chatCalls >>

\* token counts tiktoken can give "\n".join(context_str_parts): nothing for
\* the empty string, the block's own count for a single block; with several
\* blocks each "\n" separator merges with its neighbours or not, so the
\* count is within one token per separator of the sum of the blocks' counts
JoinedTokenCounts(parts, model_name) ==
    LET n     == Len(parts)
        total == SumSeq([k \in 1..n |-> NumTokensFromString(parts[k], model_name)])
    IN IF n = 0 THEN {0} ELSE (total - (n - 1)) .. (total + (n - 1))

\* rag_system.py:136-154: the loop is over; join the context, build messages
BuildMessages ==
    /\ handler = "in_rag"
    /\ pc = "pack_loop"
    /\ idx > Len(retrieved_documents)
    /\ context_tokens' \in JoinedTokenCounts(context_str_parts, llm_model_to_use)
    /\ chat_request' =
          [model  |-> llm_model_to_use,
           system |-> << SystemPromptTemplate, context_str_parts >>,
           user   |-> << question, IF Truthy(image_data_list)
                                   THEN image_data_list.items ELSE << >> >>]
    /\ pc' = "generate"
    /\ UNCHANGED << route, rag_fn, handler, question, image_data_list,
                    response, result, failed, query_embedding,
                    retrieved_documents, llm_model_to_use, current_tokens, idx,
                    context_str_parts, sources, admitted, rejected,
                    embedCalls, queryCalls, chatCalls >>

\* rag_system.py:156-169 and 185-187: the chat call and the return.
\* The call can raise; message.content can be None, and None.strip() raises
\* inside the same try.
ChatCompletion ==
    /\ handler = "in_rag"
    /\ pc = "generate"
    /\ chatCalls' = chatCalls + 1
    /\ \/ \E content \in ChatContents :
            /\ result' = LlmSuccessResult(content, sources)
            /\ pc' = "DONE"
            /\ UNCHANGED failed
       \/ \E cause \in {"call raised", "content is None"} :
            /\ result' = LlmErrorResult
            /\ pc' = "ERROR"
            /\ failed' = "generate"
    /\ handler' = "returned"
    /\ UNCHANGED << route, rag_fn, question, image_data_list, response,
                    query_embedding, retrieved_documents, llm_model_to_use,
                    current_tokens, idx, context_str_parts, sources, admitted,
                    rejected, context_tokens, chat_request,
                    embedCalls, queryCalls >>

\* app.py:58-61: build RAGResponse.  A title or url that is not a str is
\* converted by pydantic 1 and refused (ValidationError) by pydantic 2.
RespondApp ==
    /\ handler = "returned"
    /\ route = "app"
    /\ \/ /\ AllSourcesValid(result)
          /\ response' = AppOkResponse(result)
       \/ /\ ~AllSourcesValid(result)
          /\ \E coerces \in BOOLEAN :
               response' = IF coerces THEN AppOkResponse(result)
                           ELSE AppErrorResponse("ValidationError: sources.title")
    /\ handler' = "responded"
    /\ UNCHANGED << route, rag_fn, question, image_data_list, result >>
    /\ UNCHANGED ragVars

\* api/index.py:22-30.  Nothing in the try of line 20 raises: the pipeline
\* returns a dict of JSON values, so the except of line 31 is never entered.
RespondApiIndex ==
    /\ handler = "returned"
    /\ route = "api_index"
    /\ response' = ApiIndexResponse(result)
    /\ handler' = "responded"
    /\ UNCHANGED << route, rag_fn, question, image_data_list, result >>
    /\ UNCHANGED ragVars

\* api/query.py:27-30
RespondApiQuery ==
    /\ handler = "returned"
    /\ route = "api_query"
    /\ response' = ApiQueryResponse(result)
    /\ handler' = "responded"
    /\ UNCHANGED << route, rag_fn, question, image_data_list, result >>
    /\ UNCHANGED ragVars

\* One request with every external call taken as one step (call and answer)
Next ==
    \/ ImportModule /\ UNCHANGED auxVars
    \/ AskQuestion /\ UNCHANGED auxVars
    \/ QueryKnowledgeBase /\ UNCHANGED auxVars
    \/ GetEmbedding /\ UNCHANGED auxVars
    \/ RetrieveDocuments /\ UNCHANGED auxVars
    \/ PackInit /\ UNCHANGED auxVars
    \/ PackLoop /\ UNCHANGED auxVars
    \/ BuildMessages /\ UNCHANGED auxVars
    \/ ChatCompletion /\ UNCHANGED auxVars
    \/ RespondApp /\ UNCHANGED auxVars
    \/ RespondApiIndex /\ UNCHANGED auxVars
    \/ RespondApiQuery /\ UNCHANGED auxVars

Spec == Init /\ [][Next]_vars

-----------------------------------------------------------------------------
(* The same request with the external calls split into call and answer *)

\* the call a stage makes: embeddings.create (line 58), index.query (line
\* 73), chat.completions.create (line 157).  No call is given a timeout, and
\* the clients of lines 31 and 38-41 are built without one.
CallOfStage(stage) ==
    CASE stage = "embed"    -> "embeddings.create"
      [] stage = "retrieve" -> "index.query"
      [] stage = "generate" -> "chat.completions.create"

\* the stage sends its request and blocks on the answer; at retrieve,
\* pc.Index(...) of line 72 has returned and index.query is sent
IssueCall ==
    /\ handler = "in_rag"
    /\ pc \in {"embed", "retrieve", "generate"}
    /\ in_flight = "none"
    /\ in_flight' = CallOfStage(pc)
    /\ UNCHANGED otherVars
    /\ UNCHANGED << route, handler, rag_fn, question, image_data_list,
                    result, response >>
    /\ UNCHANGED ragVars

\* the service answers or the call raises; the stage goes on as in the
\* atomic view.  Nothing in the code makes this step happen.
CallCompletes ==
    /\ in_flight # "none"
    /\ in_flight' = "none"
    /\ UNCHANGED otherVars
    /\ \/ in_flight = "embeddings.create" /\ GetEmbedding
       \/ in_flight = "index.query" /\ RetrieveQueryAnswered
       \/ in_flight = "chat.completions.create" /\ ChatCompletion

\* the steps the Python interpreter takes by itself
ProgramStep ==
    \/ ImportModule /\ UNCHANGED auxVars
    \/ AskQuestion /\ UNCHANGED auxVars
    \/ QueryKnowledgeBase /\ UNCHANGED auxVars
    \/ IssueCall
    \/ in_flight = "none" /\ RetrieveIndexRaises /\ UNCHANGED auxVars
    \/ PackInit /\ UNCHANGED auxVars
    \/ PackLoop /\ UNCHANGED auxVars
    \/ BuildMessages /\ UNCHANGED auxVars
    \/ RespondApp /\ UNCHANGED auxVars
    \/ RespondApiIndex /\ UNCHANGED auxVars
    \/ RespondApiQuery /\ UNCHANGED auxVars

NextLive ==
    \/ ProgramStep
    \/ CallCompletes

\* the interpreter keeps running the handler; the services owe no answer
SpecLive == Init /\ [][NextLive]_vars /\ WF_vars(ProgramStep)


-----------------------------------------------------------------------------
(* Properties *)

\* generate_rag_answer of rag_system.py was entered for this request
RagEntered == rag_fn = "rag_system" /\ pc # "START"

\* the packing loop of lines 120-134 has been left
LoopOver ==
    \/ pc = "pack_loop" /\ idx > Len(retrieved_documents)
    \/ pc = "generate"
    \/ chatCalls > 0

\* the context has been joined (line 136)
Packed == pc = "generate" \/ chatCalls > 0

BaseOfRequest == BaseTokens(question, llm_model_to_use)

BlockTokens(parts) ==
    SumSeq([k \in 1..Len(parts) |-> NumTokensFromString(parts[k], llm_model_to_use)])

\* C1 as stated: for every input, after packing, the token count of the
\* assembled context plus baseTokens is strictly below the token budget.
C1_BudgetRespectedForAllInputs ==
    Packed => context_tokens + BaseOfRequest < MAX_TOKENS_FOR_LLM_VISION

\* C1 amended: once the loop is over, current_tokens is baseTokens plus the
\* sum of the admitted blocks' own token counts; it is strictly below the
\* budget whenever baseTokens is below the budget, and when baseTokens alone
\* reach the budget nothing is admitted and the total stays at baseTokens.
C1_RunningCountBelowBudget ==
    LoopOver =>
        /\ current_tokens = BaseOfRequest + BlockTokens(context_str_parts)
        /\ BaseOfRequest < MAX_TOKENS_FOR_LLM_VISION
              => current_tokens < MAX_TOKENS_FOR_LLM_VISION
        /\ BaseOfRequest >= MAX_TOKENS_FOR_LLM_VISION
              => context_str_parts = << >> /\ current_tokens = BaseOfRequest

\* a run where a passage was admitted and the next one hit the budget
C1_Witness ==
    /\ LoopOver
    /\ Len(context_str_parts) >= 1
    /\ rejected # {}
    /\ current_tokens < MAX_TOKENS_FOR_LLM_VISION

\* C2: once the passage at rank i is rejected, no passage at a rank j > i is
\* admitted; the admitted passages are a prefix of the input list.
C2_MonotonicAdmission ==
    /\ \A i \in rejected : \A k \in 1..Len(admitted) : admitted[k] < i
    /\ admitted = [k \in 1..Len(admitted) |-> k]
    /\ Len(context_str_parts) = Len(admitted)
    /\ \A k \in 1..Len(admitted) :
          context_str_parts[k] = DocForLlm(retrieved_documents[k])

\* rank 2 was rejected although the passage at rank 3 would have fitted
C2_Witness ==
    /\ LoopOver
    /\ rejected = {2}
    /\ Len(retrieved_documents) >= 3
    /\ current_tokens
         + NumTokensFromString(DocForLlm(retrieved_documents[3]), llm_model_to_use)
         < MAX_TOKENS_FOR_LLM_VISION

\* C3: at every step the citation list has one {title, url} entry per
\* admitted passage, in the order of admission, and a successful generation
\* returns exactly this list.
C3_CitationCorrespondence ==
    /\ Len(sources) = Len(context_str_parts)
    /\ Len(sources) = Len(admitted)
    /\ \A k \in 1..Len(sources) :
          /\ DOMAIN sources[k] = {"title", "url"}
          /\ sources[k].title = retrieved_documents[admitted[k]].title
          /\ sources[k].url = retrieved_documents[admitted[k]].url
    /\ pc = "DONE" => result.sources = sources

\* a successful generation after the same passage was admitted twice
C3_Witness ==
    /\ pc = "DONE"
    /\ Len(sources) >= 2
    /\ sources[1] = sources[2]
    /\ result.sources = sources

\* generate_rag_answer has returned to the handler
Returned ==
    \/ handler = "returned"
    \/ handler = "responded" /\ (pc \in {"DONE", "ERROR"} \/ rag_fn = "lambda")

InternalErrorApology == << "I'm sorry, an internal error occurred in the RAG system." >>
GenerationApology ==
    << "I'm sorry, I encountered an error while trying to generate a response." >>

\* C4: whatever happens in the stages and whatever text the chat model
\* returns, the answer returned by generate_rag_answer is a non-empty string.
C4_NonEmptyAnswer ==
    (Returned /\ RagEntered) =>
        /\ "answer" \in DOMAIN result
        /\ result.answer # << >>

\* C5: every result of generate_rag_answer, on the success path and on every
\* failure path, has a sources field that is a sequence of {title, url}
\* records.
C5_SourcesAlwaysPresent ==
    Returned =>
        /\ "sources" \in DOMAIN result
        /\ DOMAIN result.sources = 1..Len(result.sources)
        /\ \A k \in 1..Len(result.sources) :
              DOMAIN result.sources[k] = {"title", "url"}

\* a failure path (the index query raised) has returned its result
C5_Witness ==
    /\ handler = "returned"
    /\ failed = "retrieve"
    /\ "sources" \in DOMAIN result
    /\ result.sources = << >>

\* C6: when the embedding call fails, or the index query fails after it, no
\* later stage is invoked and generate_rag_answer returns the internal-error
\* apology with sources = [].
C6_EarlyFailureShortCircuits ==
    /\ failed = "embed" => queryCalls = 0 /\ chatCalls = 0
    /\ failed = "retrieve" => embedCalls = 1 /\ queryCalls <= 1 /\ chatCalls = 0
    /\ failed \in {"embed", "retrieve"} =>
          /\ pc = "ERROR"
          /\ handler \in {"returned", "responded"}
          /\ result = [answer |-> InternalErrorApology, sources |-> << >>]
          /\ llm_model_to_use = ""
          /\ chat_request = NoRequest

\* the embedding call raised and the result went back to the handler
C6_Witness ==
    /\ failed = "embed"
    /\ embedCalls = 1
    /\ handler = "returned"
    /\ result.answer = InternalErrorApology

\* C7: when the chat completion fails after packing, generate_llm_response
\* returns its apology with an empty sources list, whatever had been admitted,
\* and the exception does not reach generate_rag_answer's except clause.
C7_GenerationFailureSubstituted ==
    failed = "generate" =>
        /\ chatCalls = 1
        /\ pc = "ERROR"
        /\ handler \in {"returned", "responded"}
        /\ result = [answer |-> GenerationApology, sources |-> << >>]

\* the chat call failed with two citations collected
C7_Witness ==
    /\ failed = "generate"
    /\ Len(sources) >= 2
    /\ handler = "returned"
    /\ result.sources = << >>

\* the {url, text} list the claim expects for a list of {title, url} sources
ExpectedLinks(srcs) ==
    [k \in 1..Len(srcs) |-> [url |-> srcs[k].url, text |-> srcs[k].title]]

\* C8: every /ask route answers {answer, links} with the pipeline's answer
\* string and the sources remapped one-to-one, in order, to {url, text}.
C8_AskResponseShape ==
    (handler = "responded" /\ route \in {"api_index", "api_query", "index"}) =>
        /\ response.status = 200
        /\ DOMAIN response.body = {"answer", "links"}
        /\ response.body.answer.kind = "string"
        /\ response.body.answer.value = result.answer
        /\ response.body.links = ExpectedLinks(result.sources)

\* C9: on POST /api/ a failed stage gives a 200 response with the apology
\* and no sources; a 500 response comes only from an exception raised in the
\* handler around a pipeline that did not fail, and its body is the fixed
\* generic message.
C9_ApiBoundaryDegradation ==
    (handler = "responded" /\ route = "app") =>
        /\ response.status \in {200, 500}
        /\ failed # "none" =>
              /\ response.status = 200
              /\ response.body.answer.kind = "string"
              /\ response.body.answer.value \in {InternalErrorApology, GenerationApology}
              /\ response.body.sources = << >>
        /\ response.status = 500 =>
              /\ response.body =
                    [detail |-> "An error occurred while processing your request."]
              /\ failed = "none"
              /\ \/ pc = "START"
                 \/ pc = "DONE" /\ ~AllSourcesValid(result)

\* POST /api/ answered after the index query raised
C9_Witness ==
    /\ handler = "responded"
    /\ route = "app"
    /\ failed = "retrieve"
    /\ response.status = 200

\* C10: the stages run in the order embed, retrieve, pack, generate, each
\* external call at most once, each stage on the output of the one before,
\* and the request ends in DONE or ERROR with answer and sources.
C10_StageOrdering ==
    /\ embedCalls <= 1 /\ queryCalls <= 1 /\ chatCalls <= 1
    /\ pc \in {"START", "embed"} => embedCalls = 0
    /\ queryCalls = 1 =>
          embedCalls = 1 /\ query_embedding = << EMBEDDING_MODEL, question >>
    /\ pc \in {"pack", "pack_loop", "generate", "DONE"} =>
          queryCalls = 1 /\ failed = "none"
    /\ llm_model_to_use # "" => queryCalls = 1 /\ failed \notin {"embed", "retrieve"}
    /\ failed = "embed" => queryCalls = 0
    /\ chatCalls = 1 =>
          /\ queryCalls = 1
          /\ chat_request # NoRequest
          /\ chat_request.system = << SystemPromptTemplate, context_str_parts >>
          /\ chat_request.user[1] = question
    /\ (RagEntered /\ handler \in {"returned", "responded"}) =>
          /\ pc \in {"DONE", "ERROR"}
          /\ pc = "DONE" <=> failed = "none"
          /\ {"answer", "sources"} \subseteq DOMAIN result
    /\ (RagEntered /\ handler = "in_rag") => pc \notin {"DONE", "ERROR"}

\* a request that went through all four stages
C10_Witness ==
    /\ pc = "DONE"
    /\ embedCalls = 1 /\ queryCalls = 1 /\ chatCalls = 1
    /\ Len(context_str_parts) >= 1
    /\ handler = "returned"

\* the base count of line 118 has been obtained
BaseCounted == pc \in {"pack_loop", "generate"} \/ chatCalls > 0

\* C11: the vision model is used exactly when the image list holds at least
\* one payload; with no image (None, or the empty list POST /api/ passes) the
\* text-only model is used; token counting and the chat call use that model.
C11_ModelSelection ==
    /\ llm_model_to_use # "" =>
          /\ llm_model_to_use \in {LLM_MODEL_VISION, LLM_MODEL_TEXT_ONLY}
          /\ llm_model_to_use = LLM_MODEL_VISION
                <=> (~image_data_list.none /\ Len(image_data_list.items) >= 1)
    /\ (route = "app" /\ handler = "in_rag") => ~image_data_list.none
    /\ (route # "app" /\ handler = "in_rag") => image_data_list.none
    /\ BaseCounted =>
          current_tokens =
              NumTokensFromString(<< SystemPromptTemplate, question >>, llm_model_to_use)
              + RESERVED_QUERY_TOKENS
              + SumSeq([k \in 1..Len(context_str_parts) |->
                          NumTokensFromString(context_str_parts[k], llm_model_to_use)])
    /\ chat_request # NoRequest => chat_request.model = llm_model_to_use

\* POST /api/ without images: the empty list reached the chat call with the
\* text-only model
C11_Witness ==
    /\ route = "app"
    /\ image_data_list = ListOf(<< >>)
    /\ chatCalls = 1
    /\ chat_request.model = LLM_MODEL_TEXT_ONLY
    /\ Len(context_str_parts) >= 1

\* system prompt plus query plus reserved tokens, counted for the model in use
PromptPlusReserved ==
    NumTokensFromString(<< SystemPromptTemplate, question >>, llm_model_to_use)
        + RESERVED_QUERY_TOKENS

\* retrieve_documents returned its list to generate_rag_answer (line 182)
Retrieved == queryCalls = 1 /\ failed # "retrieve"

\* the base count of line 118 was obtained and the loop was reached
LoopReached == idx >= 1

\* no passage can be admitted: the index returned the empty list, or the
\* base count was obtained and already fills the budget
NothingAdmissible ==
    \/ Retrieved /\ Len(retrieved_documents) = 0
    \/ LoopReached /\ PromptPlusReserved >= MAX_TOKENS_FOR_LLM_VISION

\* C12 as stated: with an empty passage list, or with prompt, query and
\* reserve alone at or over the budget, packing raises nothing: the context
\* and the citation list are empty and the chat model is called once with
\* the bare query.
C12_NothingAdmittedIsNoError ==
    NothingAdmissible =>
        /\ failed # "pack"
        /\ context_str_parts = << >>
        /\ sources = << >>
        /\ handler \in {"returned", "responded"} => chatCalls = 1

\* C12 amended: in those two cases nothing is admitted, and packing raises
\* only when the tokenizer refuses a text it is asked to count: the base
\* count of prompt plus query (line 118), whatever the list, or, with the
\* budget used up, the count of the first passage's block (line 126), which
\* is made before the block is refused.  Then the request ends with the
\* internal-error apology, no sources and no chat call.  Otherwise packing
\* raises nothing, the context and the citation list are empty and the
\* chat model is called once with the bare query.
C12_NothingAdmittedNoErrorIfCounted ==
    NothingAdmissible =>
        /\ context_str_parts = << >>
        /\ sources = << >>
        /\ admitted = << >>
        /\ failed = "pack" =>
              /\ \/ idx = 0
                 \/ idx = 1 /\ Len(retrieved_documents) >= 1 /\ rejected = {}
              /\ pc = "ERROR"
              /\ chatCalls = 0
              /\ result = RagErrorResult
        /\ (LoopReached /\ Len(retrieved_documents) = 0) => failed # "pack"
        /\ failed # "pack" =>
              /\ failed \in {"none", "generate"}
              /\ Packed =>
                    /\ context_tokens = 0
                    /\ chat_request.system = << SystemPromptTemplate, << >> >>
                    /\ chat_request.user[1] = question
              /\ handler \in {"returned", "responded"} =>
                    /\ chatCalls = 1
                    /\ pc = "DONE" => result.sources = << >>

\* the budget was used up by the prompt alone, passages were offered, and the
\* chat model answered
C12_Witness ==
    /\ pc = "DONE"
    /\ PromptPlusReserved >= MAX_TOKENS_FOR_LLM_VISION
    /\ Len(retrieved_documents) >= 2
    /\ rejected = {1}
    /\ chatCalls = 1
    /\ result.sources = << >>

\* C14: every request that entered the pipeline eventually reaches DONE or
\* ERROR, also when a service never answers a call (a timeout ends the call
\* with the stage's error).
C14_NoIndefiniteHang ==
    (handler = "in_rag") ~> (pc \in {"DONE", "ERROR"})

-----------------------------------------------------------------------------
(* retriever.py *)

RETRIEVER_TOP_K == 5

RetrieverQueries == { "q_short", "q_mid" }

\* matches of the retriever's index: metadata is a dict, with or without keys
RetrieverMatchPool ==
    { [id |-> "c1", score |-> 90,
       metadata |-> [combined_text |-> JStr("x_small"), source |-> JStr("discourse"),
                     title |-> JStr("T1"), topic_title |-> JStr("TT1")]],
      [id |-> "c2", score |-> 80, metadata |-> EmptyDict] }

RetrieverMatchLists == SeqsUpTo(RetrieverMatchPool, Min(MaxChunks, RETRIEVER_TOP_K))

\* the dict appended for one match
MatchToChunk(m) ==
    [id          |-> m.id,
     score       |-> m.score,
     text        |-> DictGet(m.metadata, "combined_text", JStr("")),
     source      |-> DictGet(m.metadata, "source", JStr("unknown")),
     title       |-> DictGet(m.metadata, "title", JStr("")),
     topic_title |-> DictGet(m.metadata, "topic_title", JStr(""))]

RelevantChunks(matches) == [i \in 1..Len(matches) |-> MatchToChunk(matches[i])]

\* what get_query_embedding returns when embeddings.create raises
GetQueryEmbeddingOnErrorEmptyList == ListOf(<< >>)

GetQueryEmbeddingOnError == None

\* where Pinecone initialisation can stop
InitializeOutcomes ==
    { "client_error", "list_error", "index_missing", "index_error", "ok" }

\* initialize_retriever_pinecone(), returning `returns`
InitializeRetrieverPinecone(env_set, returns) ==
    IF retriever_initialized
    THEN /\ returns = TRUE
         /\ UNCHANGED << pc_retriever, pinecone_index_retriever,
                         retriever_initialized, r_clients_built, r_handles_built >>
    ELSE IF ~env_set
    THEN /\ returns = FALSE
         /\ UNCHANGED << pc_retriever, pinecone_index_retriever,
                         retriever_initialized, r_clients_built, r_handles_built >>
    ELSE \E outcome \in InitializeOutcomes :
         /\ returns = (outcome = "ok")
         /\ r_clients_built' =
                IF outcome = "client_error" THEN r_clients_built
                ELSE r_clients_built + 1
         /\ pc_retriever' =
                IF outcome = "client_error" THEN pc_retriever
                ELSE r_clients_built + 1
         /\ r_handles_built' =
                IF outcome = "ok" THEN r_handles_built + 1 ELSE r_handles_built
         /\ pinecone_index_retriever' =
                IF outcome = "ok" THEN r_handles_built + 1
                ELSE pinecone_index_retriever
         /\ retriever_initialized' = (outcome = "ok")

\* import of the module, before any thread can call it: the configuration
\* is read, the OpenAI client is built (its constructor raises without a
\* key) and initialisation is tried
RetrieverImport ==
    /\ r_module = "unloaded"
    /\ \E env_set \in BOOLEAN, client_ok \in BOOLEAN, returns \in BOOLEAN :
         /\ r_env_set' = env_set
         /\ IF client_ok
            THEN /\ InitializeRetrieverPinecone(env_set, returns)
                 /\ r_module' = "loaded"
            ELSE /\ r_module' = "import_error"
                 /\ UNCHANGED << pc_retriever, pinecone_index_retriever,
                                 retriever_initialized, r_clients_built,
                                 r_handles_built >>
    /\ UNCHANGED << r_pc, r_site, r_query, r_query_embedding, r_failure,
                    r_result, r_returned_at, r_calls, r_index_queries >>

\* the module globals initialize_retriever_pinecone assigns
initGlobals == << pc_retriever, pinecone_index_retriever,
                  retriever_initialized, r_clients_built, r_handles_built >>

\* thread t moves on inside its call
ThreadGoes(t, position, site) ==
    /\ r_pc' = [r_pc EXCEPT ![t] = position]
    /\ r_site' = [r_site EXCEPT ![t] = site]
    /\ UNCHANGED << r_result, r_returned_at, r_failure >>

\* a return statement of retrieve_relevant_chunks in thread t
RetrieverReturn(t, value, line, failure) ==
    /\ r_result' = [r_result EXCEPT ![t] = value]
    /\ r_returned_at' = [r_returned_at EXCEPT ![t] = line]
    /\ r_failure' = [r_failure EXCEPT ![t] = failure]
    /\ r_pc' = [r_pc EXCEPT ![t] = "idle"]
    /\ r_site' = [r_site EXCEPT ![t] = 0]

\* initialize_retriever_pinecone returns `ok` to the line that called it:
\* line 80 goes on to line 84 or returns [] (82); line 61 goes on to the
\* embedding call or returns None, which line 86 turns into []
InitializeReturns(t, ok) ==
    IF r_site[t] = 80
    THEN IF ok THEN ThreadGoes(t, "embed61", 0)
               ELSE RetrieverReturn(t, << >>, 82, "init")
    ELSE IF ok THEN ThreadGoes(t, "embed66", 0)
               ELSE RetrieverReturn(t, << >>, 86, "embed")

\* the except branch of initialize_retriever_pinecone (lines 53-56)
InitializeFails(t) ==
    /\ retriever_initialized' = FALSE
    /\ InitializeReturns(t, FALSE)

\* retrieve_relevant_chunks(query) is called in thread t: the test of line 80
\* reads the flag
RetrieveRelevantChunks(t) ==
    /\ r_module = "loaded"
    /\ r_pc[t] = "idle"
    /\ r_calls < MaxRetrieverCalls
    /\ r_calls' = r_calls + 1
    /\ \E q \in RetrieverQueries : r_query' = [r_query EXCEPT ![t] = q]
    /\ r_query_embedding' = [r_query_embedding EXCEPT ![t] = None]
    /\ r_result' = [r_result EXCEPT ![t] = << >>]
    /\ r_returned_at' = [r_returned_at EXCEPT ![t] = 0]
    /\ r_failure' = [r_failure EXCEPT ![t] = ""]
    /\ IF retriever_initialized
       THEN /\ r_pc' = [r_pc EXCEPT ![t] = "embed61"]
            /\ r_site' = [r_site EXCEPT ![t] = 0]
       ELSE /\ r_pc' = [r_pc EXCEPT ![t] = "init34"]
            /\ r_site' = [r_site EXCEPT ![t] = 80]
    /\ UNCHANGED << r_env_set, r_index_queries, r_module >>
    /\ UNCHANGED initGlobals

\* lines 34-40: the flag is read again, then the configuration
InitializeEnter(t) ==
    /\ r_pc[t] = "init34"
    /\ IF retriever_initialized THEN InitializeReturns(t, TRUE)
       ELSE IF ~r_env_set THEN InitializeReturns(t, FALSE)
       ELSE ThreadGoes(t, "init43", r_site[t])
    /\ UNCHANGED << r_env_set, r_index_queries, r_module, r_calls, r_query,
                    r_query_embedding >>
    /\ UNCHANGED initGlobals

\* line 43: the client is built and assigned to the module global
InitializeClient(t) ==
    /\ r_pc[t] = "init43"
    /\ \/ /\ r_clients_built' = r_clients_built + 1
          /\ pc_retriever' = r_clients_built + 1
          /\ ThreadGoes(t, "init45", r_site[t])
          /\ UNCHANGED retriever_initialized
       \/ /\ InitializeFails(t)
          /\ UNCHANGED << pc_retriever, r_clients_built >>
    /\ UNCHANGED << r_env_set, r_index_queries, r_module, r_calls, r_query,
                    r_query_embedding, pinecone_index_retriever,
                    r_handles_built >>

\* line 45: pc_retriever.list_indexes().names() answers, with or without
\* the index, or raises
InitializeListIndexes(t) ==
    /\ r_pc[t] = "init45"
    /\ \/ /\ ThreadGoes(t, "init49", r_site[t])
          /\ UNCHANGED retriever_initialized
       \/ /\ InitializeReturns(t, FALSE)
          /\ UNCHANGED retriever_initialized
       \/ InitializeFails(t)
    /\ UNCHANGED << r_env_set, r_index_queries, r_module, r_calls, r_query,
                    r_query_embedding, pc_retriever, pinecone_index_retriever,
                    r_clients_built, r_handles_built >>

\* line 49: the handle is made and assigned to the module global
InitializeHandle(t) ==
    /\ r_pc[t] = "init49"
    /\ \/ /\ r_handles_built' = r_handles_built + 1
          /\ pinecone_index_retriever' = r_handles_built + 1
          /\ ThreadGoes(t, "init51", r_site[t])
          /\ UNCHANGED retriever_initialized
       \/ /\ InitializeFails(t)
          /\ UNCHANGED << pinecone_index_retriever, r_handles_built >>
    /\ UNCHANGED << r_env_set, r_index_queries, r_module, r_calls, r_query,
                    r_query_embedding, pc_retriever, r_clients_built >>

\* lines 51-52: the flag is set
InitializeFlag(t) ==
    /\ r_pc[t] = "init51"
    /\ retriever_initialized' = TRUE
    /\ InitializeReturns(t, TRUE)
    /\ UNCHANGED << r_env_set, r_index_queries, r_module, r_calls, r_query,
                    r_query_embedding, pc_retriever, pinecone_index_retriever,
                    r_clients_built, r_handles_built >>

\* line 84 calls get_query_embedding, whose test of line 61 reads the flag
GetQueryEmbeddingGuard(t) ==
    /\ r_pc[t] = "embed61"
    /\ IF retriever_initialized THEN ThreadGoes(t, "embed66", 0)
                                ELSE ThreadGoes(t, "init34", 61)
    /\ UNCHANGED << r_env_set, r_index_queries, r_module, r_calls, r_query,
                    r_query_embedding >>
    /\ UNCHANGED initGlobals

\* lines 65-73 and the test of lines 85-86
GetQueryEmbedding(t) ==
    /\ r_pc[t] = "embed66"
    /\ \E answered \in BOOLEAN :
         LET embedding == IF answered THEN ListOf(<< r_query[t] >>)
                          ELSE GetQueryEmbeddingOnError
         IN  /\ r_query_embedding' = [r_query_embedding EXCEPT ![t] = embedding]
             /\ IF embedding.none
                THEN RetrieverReturn(t, << >>, 86, "embed")
                ELSE /\ r_pc' = [r_pc EXCEPT ![t] = "query89"]
                     /\ r_failure' = [r_failure EXCEPT ![t] =
                                         IF answered THEN "" ELSE "embed"]
                     /\ UNCHANGED << r_site, r_result, r_returned_at >>
    /\ UNCHANGED << r_env_set, r_index_queries, r_module, r_calls, r_query >>
    /\ UNCHANGED initGlobals

\* the try block of retrieve_relevant_chunks: the handle is read from the
\* module global (None.query raises AttributeError, which is caught)
QueryIndex(t) ==
    /\ r_pc[t] = "query89"
    /\ IF pinecone_index_retriever = 0
       THEN /\ RetrieverReturn(t, << >>, 111, "query")
            /\ UNCHANGED r_index_queries
       ELSE /\ r_index_queries' = r_index_queries + 1
            /\ \/ \E matches \in RetrieverMatchLists :
                    RetrieverReturn(t, RelevantChunks(matches), 107, r_failure[t])
               \/ RetrieverReturn(t, << >>, 111, "query")
    /\ UNCHANGED << r_env_set, r_module, r_calls, r_query, r_query_embedding >>
    /\ UNCHANGED initGlobals

ragModuleVars == << route, handler, rag_fn, pc, question, image_data_list,
                    query_embedding, retrieved_documents, llm_model_to_use,
                    current_tokens, idx, context_str_parts, sources, admitted,
                    rejected, context_tokens, chat_request, result, failed,
                    embedCalls, queryCalls, chatCalls, response, in_flight >>

NextRetriever ==
    \/ RetrieverImport /\ UNCHANGED << ragModuleVars, concVars >>
    \/ \E t \in Threads :
          RetrieveRelevantChunks(t) /\ UNCHANGED << ragModuleVars, concVars >>
    \/ \E t \in Threads :
          InitializeEnter(t) /\ UNCHANGED << ragModuleVars, concVars >>
    \/ \E t \in Threads :
          InitializeClient(t) /\ UNCHANGED << ragModuleVars, concVars >>
    \/ \E t \in Threads :
          InitializeListIndexes(t) /\ UNCHANGED << ragModuleVars, concVars >>
    \/ \E t \in Threads :
          InitializeHandle(t) /\ UNCHANGED << ragModuleVars, concVars >>
    \/ \E t \in Threads :
          InitializeFlag(t) /\ UNCHANGED << ragModuleVars, concVars >>
    \/ \E t \in Threads :
          GetQueryEmbeddingGuard(t) /\ UNCHANGED << ragModuleVars, concVars >>
    \/ \E t \in Threads :
          GetQueryEmbedding(t) /\ UNCHANGED << ragModuleVars, concVars >>
    \/ \E t \in Threads :
          QueryIndex(t) /\ UNCHANGED << ragModuleVars, concVars >>

\* retriever.py is imported by none of the deployed modules: one deployment is enough
InitRetriever == Init /\ route = "app"

SpecRetriever == InitRetriever /\ [][NextRetriever]_vars

\* the last call of retrieve_relevant_chunks in thread t has returned
RetrieverCallReturned(t) == r_pc[t] = "idle" /\ r_returned_at[t] # 0

\* some thread is inside the body of initialize_retriever_pinecone
Initializing == \E t \in Threads : r_pc[t] \in {"init43", "init45", "init49", "init51"}

\* every call returns a list, and the empty one after a failure
ReturnsEmptyOnFailure ==
    /\ \A t \in Threads :
          r_pc[t] \in {"idle", "init34", "init43", "init45", "init49", "init51",
                       "embed61", "embed66", "query89"}
    /\ \A t \in Threads :
          /\ (RetrieverCallReturned(t) /\ r_failure[t] # "") => r_result[t] = << >>
          /\ (RetrieverCallReturned(t) /\ r_returned_at[t] \in {82, 86, 111})
                 => r_result[t] = << >>
          /\ RetrieverCallReturned(t) => r_returned_at[t] \in {82, 86, 107, 111}

\* the flag is set only with client and handle set
FlagImpliesHandle ==
    retriever_initialized => (pinecone_index_retriever # 0 /\ pc_retriever # 0)

\* the initialised retriever keeps its flag, client and handle
InitializedStaysPut ==
    retriever_initialized =>
        /\ retriever_initialized'
        /\ UNCHANGED << pc_retriever, pinecone_index_retriever,
                        r_clients_built, r_handles_built >>

\* the index is queried only while the flag is set, by a call holding an
\* embedding
QueriesOnlyWhenReady ==
    r_index_queries' # r_index_queries =>
        /\ retriever_initialized
        /\ pinecone_index_retriever # 0
        /\ \E t \in Threads :
              /\ r_pc[t] = "query89" /\ r_pc'[t] = "idle"
              /\ r_failure[t] = ""
              /\ ~r_query_embedding[t].none

InitializedStaysPutWhenQuiet ==
    (retriever_initialized /\ ~Initializing) =>
        /\ retriever_initialized'
        /\ UNCHANGED << pc_retriever, pinecone_index_retriever,
                        r_clients_built, r_handles_built >>

\* the index is queried only through a handle that was set, by a call that
\* saw initialisation succeed and holds an embedding
QueriesOnlyWithHandle ==
    r_index_queries' # r_index_queries =>
        /\ pinecone_index_retriever # 0
        /\ r_handles_built >= 1
        /\ \E t \in Threads :
              /\ r_pc[t] = "query89" /\ r_pc'[t] = "idle"
              /\ r_failure[t] = ""
              /\ ~r_query_embedding[t].none

-----
(* rag_system.py: two requests at once *)

MaxConcDocs == 1    \* longest match list a concurrent request is answered with

ConcQuestions == { "q_short", "q_mid" }
ConcImages == { None, ListOf(<< << "QUJD" >> >>) }
ConcMatchPool == { m \in MatchPool : m.id \in {"d1", "d2"} }
ConcMatchLists == SeqsUpTo(ConcMatchPool, Min(MaxConcDocs, TOP_K))
ConcChatContents == { << "ok" >>, << " ", "\n" >> }

\* the for loop of lines 120-134 from rank i on: the sources it leaves
RECURSIVE PackFrom(_, _, _, _, _, _)
PackFrom(docs, i, cur, srcs, model_name, limit) ==
    IF i > Len(docs) THEN srcs
    ELSE LET doc_tokens == NumTokensFromString(DocForLlm(docs[i]), model_name)
         IN IF FitsBudget(cur, doc_tokens, limit)
            THEN PackFrom(docs, i + 1, cur + doc_tokens,
                          SourcesAfterAdmit(srcs, docs[i]), model_name, limit)
            ELSE PackFrom(docs, RankAfterReject(i, Len(docs)), cur, srcs,
                          model_name, limit)

\* sources of generate_llm_response(query, retrieved_docs, image_data_list)
GenerateSources(q, docs, images) ==
    PackFrom(docs, 1, BaseTokens(q, LlmModelFor(images)), << >>,
             LlmModelFor(images), MaxTokensEffective(images))

\* generate_rag_answer(in.question, in.image_data_list) run alone with the
\* services answering as in resp
AloneResult(in, resp) ==
    IF resp.embed = "raise" \/ resp.retrieve.kind = "raise"
           \/ resp.generate.kind = "tokenizer raised"
    THEN RagErrorResult
    ELSE IF resp.generate.kind = "chat raised"
    THEN LlmErrorResult
    ELSE LlmSuccessResult(resp.generate.content,
             GenerateSources(in.question,
                             RetrievedDocs(resp.retrieve.matches),
                             in.image_data_list))

Running(r) == c_pc[r] \in {"embed", "retrieve", "generate"}
OtherRunning(r) == \E o \in Requests \ {r} : Running(o)

\* import of rag_system.py: the two clients are built once
ConcImport ==
    /\ c_pinecone = 0
    /\ c_pinecone' = 1
    /\ c_openai' = 1
    /\ UNCHANGED << c_frame, c_pc, c_in, c_resp, c_result, c_concurrent >>

\* a request enters generate_rag_answer(query, image_data_list)
ConcStart(r) ==
    /\ c_pinecone # 0
    /\ c_pc[r] = "idle"
    /\ \E q \in ConcQuestions, images \in ConcImages :
         /\ c_frame' = [c_frame EXCEPT ![Slot(r)] =
                           [EmptyFrame EXCEPT !.question = q,
                                              !.image_data_list = images]]
         /\ c_in' = [c_in EXCEPT ![r] = [question |-> q, image_data_list |-> images]]
    /\ c_pc' = [c_pc EXCEPT ![r] = "embed"]
    /\ c_concurrent' = (c_concurrent \/ OtherRunning(r))
    /\ UNCHANGED << c_pinecone, c_openai, c_resp, c_result >>

\* the except clause of generate_rag_answer, for request r
ConcRaise(r) ==
    /\ c_result' = [c_result EXCEPT ![r] = RagErrorResult]
    /\ c_pc' = [c_pc EXCEPT ![r] = "returned"]
    /\ UNCHANGED c_frame

\* line 179 for request r: openai_client is read, query_embedding is a local
ConcEmbed(r) ==
    /\ c_pc[r] = "embed"
    /\ \/ /\ c_frame' = [c_frame EXCEPT ![Slot(r)].query_embedding =
                            << EMBEDDING_MODEL, c_frame[Slot(r)].question >>]
          /\ c_resp' = [c_resp EXCEPT ![r].embed = "ok"]
          /\ c_pc' = [c_pc EXCEPT ![r] = "retrieve"]
          /\ UNCHANGED c_result
       \/ /\ c_resp' = [c_resp EXCEPT ![r].embed = "raise"]
          /\ ConcRaise(r)
    /\ c_concurrent' = (c_concurrent \/ OtherRunning(r))
    /\ UNCHANGED << c_pinecone, c_openai, c_in >>

\* line 182 for request r: pc is read, index and retrieved_docs are locals
ConcRetrieve(r) ==
    /\ c_pc[r] = "retrieve"
    /\ \/ \E matches \in ConcMatchLists :
            /\ c_frame' = [c_frame EXCEPT ![Slot(r)].retrieved_documents =
                              RetrievedDocs(matches)]
            /\ c_resp' = [c_resp EXCEPT ![r].retrieve =
                              [kind |-> "matches", matches |-> matches]]
            /\ c_pc' = [c_pc EXCEPT ![r] = "generate"]
            /\ UNCHANGED c_result
       \/ /\ c_resp' = [c_resp EXCEPT ![r].retrieve =
                            [kind |-> "raise", matches |-> << >>]]
          /\ ConcRaise(r)
    /\ c_concurrent' = (c_concurrent \/ OtherRunning(r))
    /\ UNCHANGED << c_pinecone, c_openai, c_in >>

\* line 185 for request r: generate_llm_response works on its arguments and
\* locals and reads openai_client
ConcGenerate(r) ==
    /\ c_pc[r] = "generate"
    /\ LET f == c_frame[Slot(r)]
       IN \/ \E content \in ConcChatContents :
               /\ c_resp' = [c_resp EXCEPT ![r].generate =
                                [kind |-> "content", content |-> content]]
               /\ c_result' = [c_result EXCEPT ![r] =
                                LlmSuccessResult(content,
                                    GenerateSources(f.question,
                                                    f.retrieved_documents,
                                                    f.image_data_list))]
          \/ /\ c_resp' = [c_resp EXCEPT ![r].generate =
                               [kind |-> "chat raised", content |-> << >>]]
             /\ c_result' = [c_result EXCEPT ![r] = LlmErrorResult]
          \/ /\ c_resp' = [c_resp EXCEPT ![r].generate =
                               [kind |-> "tokenizer raised", content |-> << >>]]
             /\ c_result' = [c_result EXCEPT ![r] = RagErrorResult]
    /\ c_pc' = [c_pc EXCEPT ![r] = "returned"]
    /\ c_concurrent' = (c_concurrent \/ OtherRunning(r))
    /\ UNCHANGED << c_pinecone, c_openai, c_frame, c_in >>

NextConc ==
    \/ ConcImport /\ UNCHANGED << ragModuleVars, retrVars >>
    \/ \E r \in Requests : ConcStart(r) /\ UNCHANGED << ragModuleVars, retrVars >>
    \/ \E r \in Requests : ConcEmbed(r) /\ UNCHANGED << ragModuleVars, retrVars >>
    \/ \E r \in Requests : ConcRetrieve(r) /\ UNCHANGED << ragModuleVars, retrVars >>
    \/ \E r \in Requests : ConcGenerate(r) /\ UNCHANGED << ragModuleVars, retrVars >>

\* both requests reach rag_system.py through the same deployed module
InitConc == Init /\ route = "app"

SpecConc == InitConc /\ [][NextConc]_vars

\* the clients, once built, are the same objects for ever
HandlesKept == c_pinecone # 0 => UNCHANGED << c_pinecone, c_openai >>

\* a request that took no step finds its locals as it left them
LocalsUntouched ==
    \A r \in Requests :
        (Running(r) /\ c_pc'[r] = c_pc[r]) => c_frame'[Slot(r)] = c_frame[Slot(r)]

\* C13: requests run only after the clients were built at import; no step
\* rebuilds a client or changes the locals of another request; and under
\* every interleaving of two requests each returns the value it would
\* return running alone with the same arguments and the same answers of
\* the services.
C13_RequestIndependence ==
    /\ [](/\ (\E r \in Requests : c_pc[r] # "idle")
                 => (c_pinecone = 1 /\ c_openai = 1)
          /\ \A r \in Requests :
                 c_pc[r] = "returned" => c_result[r] = AloneResult(c_in[r], c_resp[r]))
    /\ [][HandlesKept /\ LocalsUntouched]_vars

\* two requests with different questions overlapped, both returned, and the
\* same passage was cited for one and not for the other
C13_Witness ==
    /\ c_concurrent
    /\ \A r \in Requests : c_pc[r] = "returned"
    /\ c_in[1].question # c_in[2].question
    /\ c_resp[1].retrieve = c_resp[2].retrieve
    /\ c_resp[1].generate.kind = "content"
    /\ c_resp[2].generate.kind = "content"
    /\ Len(c_result[1].sources) = 1
    /\ Len(c_result[2].sources) = 0

====
